---------------------------- MODULE Spec2Model ----------------------------
(***************************************************************************)
(* A model of the two Conan recipes of thinkbox-my-library:                *)
(*   src/MayaSDKConan/conanfile.py   class MayaSDKConan  (recipe mayasdk)  *)
(*   src/conanfile.py                class ThinkboxMYLibraryConan          *)
(*                                                                         *)
(* The recipe methods are modelled as atomic operations on the options,    *)
(* the settings and the file trees they read and write.  Three             *)
(* specifications share the variables:                                     *)
(*   SpecConfigure  configure() and validate() of both recipes,            *)
(*   SpecBuild      MayaSDKConan.build(),                                  *)
(*   SpecPackage    ThinkboxMYLibraryConan.package().                      *)
(*                                                                         *)
(* Conventions.                                                            *)
(*   An option is a sequence of at most one string: <<>> is Python's None  *)
(*   (the option is unset), <<"2023">> is the option set to '2023'.        *)
(*   A path is a sequence of path components; a file tree is a function    *)
(*   from the paths that exist to their nodes.                             *)
(*   The methods are callable in any order and any number of times (up to  *)
(*   the bounds): neither recipe checks which phases ran before.           *)
(*   self.options['mayasdk'].maya_version of ThinkboxMYLibraryConan and    *)
(*   self.options.maya_version of MayaSDKConan are the same option.        *)
(***************************************************************************)
EXTENDS Naturals, Sequences, FiniteSets, TLC

VARIABLES
    settings_os,            \* str(self.settings.os)
    settings_compiler,      \* [name, version]: self.settings.compiler, .version
    maya_version,           \* ThinkboxMYLibraryConan: self.options.maya_version
    mayasdk_maya_version,   \* MayaSDKConan: self.options.maya_version
    mayasdk_maya_path,      \* MayaSDKConan: self.options.maya_path
    vendor,                 \* the file tree found at str(self.options.maya_path)
    build_folder,           \* MayaSDKConan: the file tree under self.build_folder
    source_folder,          \* ThinkboxMYLibraryConan: NOTICE.txt and LICENSE.txt
    package_folder,         \* ThinkboxMYLibraryConan: licenses/LICENSE
    linesep,                \* os.linesep of the host running the recipe
    history                 \* the calls made so far, each with the state it found

vars == <<settings_os, settings_compiler, maya_version, mayasdk_maya_version,
          mayasdk_maya_path, vendor, build_folder, source_folder,
          package_folder, linesep, history>>

-----------------------------------------------------------------------------
(* Bounds of the model.                                                    *)

\* calls of configure()/validate() in one behaviour of SpecConfigure
MaxCalls == 3

-----------------------------------------------------------------------------
(* Python values.                                                          *)

None == <<>>

Some(v) == <<v>>

\* str(x) of an option: 'None' when it is unset, its value otherwise
Str(o) == IF o = None THEN "None" ELSE o[1]

RECURSIVE Concat(_)
\* ''.join(pieces)
Concat(pieces) ==
    IF pieces = <<>> THEN "" ELSE Head(pieces) \o Concat(Tail(pieces))

\* template.format(arg): a template is the sequence of its literal pieces and
\* replacement fields '{}'; every field is replaced by str(arg).
Format(template, arg) ==
    Concat([i \in 1..Len(template) |->
              IF template[i] = "{}" THEN Str(arg) ELSE template[i]])

-----------------------------------------------------------------------------
(* The static tables of the recipes.                                       *)

\* src/conanfile.py
VALID_MAYA_CONFIGS ==
    ( <<"Visual Studio", "16">> :> {"2022", "2023"} ) @@
    ( <<"gcc", "7">>            :> {"2022", "2023"} ) @@
    ( <<"gcc", "9">>            :> {"2022", "2023"} ) @@
    ( <<"apple-clang", "10.0">> :> {"2022", "2023"} )

\* src/MayaSDKConan/conanfile.py
MayaSDK_VALID_MAYA_CONFIGS ==
    ( <<"Visual Studio", "16">> :> {"2022", "2023"} ) @@
    ( <<"gcc", "7">>            :> {"2022", "2023"} ) @@
    ( <<"gcc", "9">>            :> {"2022", "2023"} ) @@
    ( <<"apple-clang", "10.0">> :> {"2022", "2023"} )

\* SETTINGS['os']
SETTINGS_os == {"Windows", "Linux", "Macos"}

\* the compiler names and versions SETTINGS['compiler'] mentions; the methods
\* read whatever pair the caller's settings hold, so every combination of a
\* name and a version is an input
SETTINGS_compiler ==
    [name : {"Visual Studio", "gcc", "apple-clang"},
     version : {"16", "7", "9", "10.0"}]

\* options['maya_version'] of both recipes
MAYA_VERSIONS == {"2022", "2023"}

DEFAULT_MAYA_PATHS ==
    [Windows |-> <<"C:/Program Files/Autodesk/Maya", "{}">>,
     Linux   |-> <<"/usr/autodesk/maya", "{}">>,
     Macos   |-> <<"/Applications/Autodesk/maya", "{}">>]

\* a value of options['maya_path'] ('ANY') the user gave
USER_MAYA_PATH == "/opt/autodesk/maya"

-----------------------------------------------------------------------------
(* MayaSDKConan.configure and validate.                                    *)

\* a configure() that derives the path before it defaults the version
MayaSDKConan_configure_PathFirst(os, version, path) ==
    [maya_version |-> IF version = None THEN Some("2022") ELSE version,
     maya_path    |-> IF path = None
                      THEN Some(Format(DEFAULT_MAYA_PATHS[os], version))
                      ELSE path]

\* a configure() that appends a separator to a path that is already set
MayaSDKConan_configure_AppendsSeparator(os, version, path) ==
    LET v == IF version = None THEN Some("2022") ELSE version
    IN  [maya_version |-> v,
         maya_path    |-> IF path = None
                          THEN Some(Format(DEFAULT_MAYA_PATHS[os], v))
                          ELSE Some(Str(path) \o "/")]

\* a configure() that fills the template with the default version
MayaSDKConan_configure_DefaultVersionPath(os, version, path) ==
    LET v == IF version = None THEN Some("2022") ELSE version
    IN  [maya_version |-> v,
         maya_path    |-> IF path = None
                          THEN Some(Format(DEFAULT_MAYA_PATHS[os], Some("2022")))
                          ELSE path]

MayaSDKConan_configure(os, version, path) ==
    LET v == IF version = None THEN Some("2022") ELSE version
    IN  [maya_version |-> v,
         maya_path    |-> IF path = None
                          THEN Some(Format(DEFAULT_MAYA_PATHS[os], v))
                          ELSE path]

\* the result of a method: "ok", or the exception it raised:
\* "Exception" is the recipes' raise Exception(...), "KeyError" the failed
\* dictionary lookup.
MayaSDKConan_validate(compiler, version) ==
    LET compiler_tuple == <<compiler.name, compiler.version>>
        v              == Str(version)
    IN  IF compiler_tuple \notin DOMAIN MayaSDK_VALID_MAYA_CONFIGS
        THEN "KeyError"
        ELSE IF v \notin MayaSDK_VALID_MAYA_CONFIGS[compiler_tuple]
             THEN "Exception"
             ELSE "ok"

-----------------------------------------------------------------------------
(* ThinkboxMYLibraryConan.configure and validate.                          *)

\* a configure() that only defaults its own option
ThinkboxMYLibraryConan_configure_NoPropagation(own, dep) ==
    [maya_version         |-> IF own = None THEN Some("2022") ELSE own,
     mayasdk_maya_version |-> dep]

ThinkboxMYLibraryConan_configure(own, dep) ==
    LET v == IF own = None THEN Some("2022") ELSE own
    IN  [maya_version |-> v, mayasdk_maya_version |-> v]

\* a validate() that looks the compiler up before it compares the options
ThinkboxMYLibraryConan_validate_LookupFirst(compiler, own, dep) ==
    LET compiler_tuple == <<compiler.name, compiler.version>>
        v              == Str(own)
    IN  IF compiler_tuple \notin DOMAIN VALID_MAYA_CONFIGS
        THEN "KeyError"
        ELSE IF own # dep \/ v \notin VALID_MAYA_CONFIGS[compiler_tuple]
             THEN "Exception"
             ELSE "ok"

ThinkboxMYLibraryConan_validate(compiler, own, dep) ==
    LET compiler_tuple == <<compiler.name, compiler.version>>
        v              == Str(own)
    IN  IF own # dep
        THEN "Exception"
        ELSE IF compiler_tuple \notin DOMAIN VALID_MAYA_CONFIGS
             THEN "KeyError"
             ELSE IF v \notin VALID_MAYA_CONFIGS[compiler_tuple]
                  THEN "Exception"
                  ELSE "ok"

-----------------------------------------------------------------------------
(* The calls.  Every call appends to history the method, the options it    *)
(* found and its result.                                                   *)

Options ==
    [maya_version         |-> maya_version,
     mayasdk_maya_version |-> mayasdk_maya_version,
     mayasdk_maya_path    |-> mayasdk_maya_path]

Call(op, result) == [op |-> op, result |-> result, pre |-> Options]

NotConfigureVars ==
    <<settings_os, settings_compiler, vendor, build_folder, source_folder,
      package_folder, linesep>>

MayaSDK_Configure ==
    /\ Len(history) < MaxCalls
    /\ LET r == MayaSDKConan_configure(settings_os, mayasdk_maya_version,
                                       mayasdk_maya_path)
       IN  /\ mayasdk_maya_version' = r.maya_version
           /\ mayasdk_maya_path' = r.maya_path
    /\ history' = Append(history, Call("mayasdk.configure", "ok"))
    /\ UNCHANGED <<maya_version, NotConfigureVars>>

MayaSDK_Validate ==
    /\ Len(history) < MaxCalls
    /\ history' = Append(history,
          Call("mayasdk.validate",
               MayaSDKConan_validate(settings_compiler, mayasdk_maya_version)))
    /\ UNCHANGED <<maya_version, mayasdk_maya_version, mayasdk_maya_path,
                   NotConfigureVars>>

Library_Configure ==
    /\ Len(history) < MaxCalls
    /\ LET r == ThinkboxMYLibraryConan_configure(maya_version,
                                                 mayasdk_maya_version)
       IN  /\ maya_version' = r.maya_version
           /\ mayasdk_maya_version' = r.mayasdk_maya_version
    /\ history' = Append(history, Call("thinkboxmylibrary.configure", "ok"))
    /\ UNCHANGED <<mayasdk_maya_path, NotConfigureVars>>

Library_Validate ==
    /\ Len(history) < MaxCalls
    /\ history' = Append(history,
          Call("thinkboxmylibrary.validate",
               ThinkboxMYLibraryConan_validate(settings_compiler, maya_version,
                                               mayasdk_maya_version)))
    /\ UNCHANGED <<maya_version, mayasdk_maya_version, mayasdk_maya_path,
                   NotConfigureVars>>

\* the options before any configure(): each version unset or one of the
\* declared values, the path unset or given by the user
InitConfigure ==
    /\ settings_os \in SETTINGS_os
    /\ settings_compiler \in SETTINGS_compiler
    /\ maya_version \in {None} \cup {Some(v) : v \in MAYA_VERSIONS}
    /\ mayasdk_maya_version \in {None} \cup {Some(v) : v \in MAYA_VERSIONS}
    /\ mayasdk_maya_path \in {None, Some(USER_MAYA_PATH)}
    /\ vendor = <<>>
    /\ build_folder = <<>>
    /\ source_folder = <<>>
    /\ package_folder = <<>>
    /\ linesep = <<>>
    /\ history = <<>>

NextConfigure ==
    \/ MayaSDK_Configure
    \/ MayaSDK_Validate
    \/ Library_Configure
    \/ Library_Validate

SpecConfigure == InitConfigure /\ [][NextConfigure]_vars

-----------------------------------------------------------------------------
(* Properties of configure() and validate(), checked under SpecConfigure.  *)

Last == history[Len(history)]

Called(op) == history # <<>> /\ Last.op = op

\* the index of the first call of op in history, 0 when there is none
FirstCall(op) ==
    LET is == {i \in 1..Len(history) : history[i].op = op}
    IN  IF is = {} THEN 0 ELSE CHOOSE i \in is : \A j \in is : i <= j

\* the options before the first call
InitialOptions == IF history = <<>> THEN Options ELSE history[1].pre

\* the compatibility matrix as the specification states it
InMatrix(compiler, version) ==
    /\ <<compiler.name, compiler.version>> \in DOMAIN VALID_MAYA_CONFIGS
    /\ Str(version) \in VALID_MAYA_CONFIGS[<<compiler.name, compiler.version>>]

\* the default installation paths, written out
ExpectedDefaultPath ==
    [Windows |-> [v \in MAYA_VERSIONS |->
                    IF v = "2022" THEN "C:/Program Files/Autodesk/Maya2022"
                                  ELSE "C:/Program Files/Autodesk/Maya2023"],
     Linux   |-> [v \in MAYA_VERSIONS |->
                    IF v = "2022" THEN "/usr/autodesk/maya2022"
                                  ELSE "/usr/autodesk/maya2023"],
     Macos   |-> [v \in MAYA_VERSIONS |->
                    IF v = "2022" THEN "/Applications/Autodesk/maya2022"
                                  ELSE "/Applications/Autodesk/maya2023"]]

\* C1 (as claimed): validate() of either recipe returns normally for every
\* (compiler, compiler version, SDK version) of the compatibility matrix and
\* raises the configuration error (the recipes' Exception) for every other
\* triple, the pairs absent from the matrix included.  For the library the
\* case where its option differs from the dependency's is C3's.
C1_ValidateMatrixOrConfigurationError ==
    /\ Called("mayasdk.validate") =>
          Last.result = IF InMatrix(settings_compiler, mayasdk_maya_version)
                        THEN "ok" ELSE "Exception"
    /\ Called("thinkboxmylibrary.validate")
       /\ maya_version = mayasdk_maya_version =>
          Last.result = IF InMatrix(settings_compiler, maya_version)
                        THEN "ok" ELSE "Exception"

\* C2: after ThinkboxMYLibraryConan.configure() the dependency's maya_version
\* equals the library's maya_version, which is the value it had, or '2022'
\* when it was unset, whatever the dependency's option was before.
C2_ConfigurePropagates ==
    Called("thinkboxmylibrary.configure") =>
        /\ mayasdk_maya_version = maya_version
        /\ maya_version = IF Last.pre.maya_version = None
                          THEN Some("2022") ELSE Last.pre.maya_version

C2_Witness ==
    /\ Called("thinkboxmylibrary.configure")
    /\ Last.pre.maya_version = Some("2023")
    /\ Last.pre.mayasdk_maya_version = Some("2022")
    /\ mayasdk_maya_version = Some("2023")

\* C3: ThinkboxMYLibraryConan.validate() raises the configuration error
\* whenever the library's maya_version differs from the dependency's, for
\* every compiler setting and whether or not configure() was called before.
C3_ValidateRejectsDivergence ==
    Called("thinkboxmylibrary.validate")
    /\ Last.pre.maya_version # Last.pre.mayasdk_maya_version =>
        Last.result = "Exception"

\* validate() is the first call, the options differ and the compiler pair
\* is absent from the matrix
C3_Witness ==
    /\ Len(history) = 1
    /\ Called("thinkboxmylibrary.validate")
    /\ maya_version = Some("2022")
    /\ mayasdk_maya_version = Some("2023")
    /\ settings_compiler = [name |-> "gcc", version |-> "16"]
    /\ Last.result = "Exception"

\* C6: MayaSDKConan.configure() sets an unset maya_path to the default path
\* of the OS with the resolved version ('2022' when the version was unset),
\* and leaves a maya_path that is set unchanged.
C6_DefaultPath ==
    Called("mayasdk.configure") =>
        LET resolved == IF Last.pre.mayasdk_maya_version = None
                        THEN "2022" ELSE Last.pre.mayasdk_maya_version[1]
        IN  /\ mayasdk_maya_version = Some(resolved)
            /\ mayasdk_maya_path =
                 IF Last.pre.mayasdk_maya_path = None
                 THEN Some(ExpectedDefaultPath[settings_os][resolved])
                 ELSE Last.pre.mayasdk_maya_path

C6_Witness ==
    /\ Called("mayasdk.configure")
    /\ settings_os = "Linux"
    /\ Last.pre.mayasdk_maya_version = Some("2023")
    /\ Last.pre.mayasdk_maya_path = None
    /\ mayasdk_maya_path = Some("/usr/autodesk/maya2023")

\* C7: configure() is idempotent in both recipes: a second call of the same
\* configure() right after the first leaves maya_version, maya_path and the
\* dependency's maya_version as the first call left them.
C7_ConfigureIdempotent ==
    \A op \in {"mayasdk.configure", "thinkboxmylibrary.configure"} :
        Len(history) >= 2 /\ Last.op = op /\ history[Len(history) - 1].op = op
            => Options = Last.pre

\* two calls of MayaSDKConan.configure() in a row, the first on unset options
C7_Witness ==
    /\ Len(history) = 2
    /\ Last.op = "mayasdk.configure"
    /\ history[1].op = "mayasdk.configure"
    /\ history[1].pre.mayasdk_maya_version = None
    /\ history[1].pre.mayasdk_maya_path = None
    /\ mayasdk_maya_path # None

BothConfigured ==
    /\ FirstCall("mayasdk.configure") > 0
    /\ FirstCall("thinkboxmylibrary.configure") > 0

\* C10 (as claimed): when the user did not set maya_path, then once both
\* configure() methods have run, in either order, maya_path is the default
\* path of the OS for MayaSDKConan's final maya_version.
C10_PathMatchesVersionEitherOrder ==
    InitialOptions.mayasdk_maya_path = None /\ BothConfigured =>
        mayasdk_maya_path =
            Some(ExpectedDefaultPath[settings_os][Str(mayasdk_maya_version)])

\* C10 (amended): the same, when ThinkboxMYLibraryConan.configure() ran
\* before the first MayaSDKConan.configure().
C10_PathMatchesVersionLibraryFirst ==
    /\ InitialOptions.mayasdk_maya_path = None
    /\ BothConfigured
    /\ FirstCall("thinkboxmylibrary.configure") < FirstCall("mayasdk.configure")
    => mayasdk_maya_path =
            Some(ExpectedDefaultPath[settings_os][Str(mayasdk_maya_version)])

\* the library asks for '2023', the SDK recipe had '2022'
C10_Witness ==
    /\ Len(history) = 2
    /\ history[1].op = "thinkboxmylibrary.configure"
    /\ history[2].op = "mayasdk.configure"
    /\ InitialOptions = [maya_version |-> Some("2023"),
                         mayasdk_maya_version |-> Some("2022"),
                         mayasdk_maya_path |-> None]
    /\ settings_os = "Macos"
    /\ mayasdk_maya_path = Some("/Applications/Autodesk/maya2023")

-----------------------------------------------------------------------------
(* File trees.  A node is a directory or a file with its content.          *)

\* builds in one behaviour of SpecBuild
MaxBuilds == 2

\* header files the vendor's include/maya may hold
MaxHeaders == 1

Dir == [kind |-> "dir", data |-> ""]

File(data) == [kind |-> "file", data |-> data]

IsPrefix(p, q) == Len(p) <= Len(q) /\ SubSeq(q, 1, Len(p)) = p

\* the paths of tree fs strictly below p
Below(fs, p) == {q \in DOMAIN fs : IsPrefix(p, q) /\ q # p}

\* os.path.exists(p)
Exists(fs, p) == p \in DOMAIN fs

\* shutil.rmtree(p): p and everything below it is gone
rmtree(fs, p) == [q \in {q \in DOMAIN fs : ~IsPrefix(p, q)} |-> fs[q]]

\* os.makedirs(p): FileExistsError when p exists, else p and its missing
\* parents become directories
makedirs(fs, p) ==
    IF p \in DOMAIN fs
    THEN [result |-> "FileExistsError", fs |-> fs]
    ELSE [result |-> "ok",
          fs |-> [q \in DOMAIN fs \cup {SubSeq(p, 1, n) : n \in 0..Len(p)} |->
                    IF q \in DOMAIN fs THEN fs[q] ELSE Dir]]

\* shutil.copytree(src, dst), src in tree from and dst in tree fs: the
\* source directory is listed first, then dst is created (it must not exist)
\* and everything below src is copied below dst.  copied: the paths written.
copytree(from, src, fs, dst) ==
    IF src \notin DOMAIN from
    THEN [result |-> "FileNotFoundError", fs |-> fs, copied |-> {}]
    ELSE IF from[src].kind # "dir"
    THEN [result |-> "NotADirectoryError", fs |-> fs, copied |-> {}]
    ELSE IF dst \in DOMAIN fs
    THEN [result |-> "FileExistsError", fs |-> fs, copied |-> {}]
    ELSE LET new == {dst \o SubSeq(q, Len(src) + 1, Len(q)) :
                        q \in Below(from, src) \cup {src}}
         IN  [result |-> "ok",
              fs |-> [q \in DOMAIN fs \cup new |->
                        IF q \in new
                        THEN from[src \o SubSeq(q, Len(dst) + 1, Len(q))]
                        ELSE fs[q]],
              copied |-> new]

\* shutil.copy(src, dst) with dst a directory of tree fs: the file is written
\* as dst/basename(src)
copy(from, src, fs, dst) ==
    IF src \notin DOMAIN from
    THEN [result |-> "FileNotFoundError", fs |-> fs, copied |-> {}]
    ELSE IF from[src].kind # "file"
    THEN [result |-> "IsADirectoryError", fs |-> fs, copied |-> {}]
    ELSE LET target == dst \o <<src[Len(src)]>>
         IN  [result |-> "ok",
              fs |-> [q \in DOMAIN fs \cup {target} |->
                        IF q = target THEN from[src] ELSE fs[q]],
              copied |-> {target}]

-----------------------------------------------------------------------------
(* MayaSDKConan.build.                                                     *)

MAYA_SDK_LIBS ==
    <<"Foundation", "OpenMaya", "OpenMayaAnim", "OpenMayaFX", "OpenMayaRender",
      "OpenMayaUI">>

LIBRARY_EXTENSIONS == [Windows |-> "lib", Linux |-> "so", Macos |-> "dylib"]

LIBRARY_PREFIX == [Windows |-> "", Linux |-> "lib", Macos |-> "lib"]

\* the components of the directory below maya_path
LIBRARY_DIRECTORIES ==
    [Windows |-> <<"lib">>,
     Linux   |-> <<"lib">>,
     Macos   |-> <<"Maya.app", "Conents", "MacOS">>]

\* f'{LIBRARY_PREFIX[os_setting]}{lib}.{LIBRARY_EXTENSIONS[os_setting]}'
LibraryFileName(os, lib) ==
    Concat(<<LIBRARY_PREFIX[os], lib, ".", LIBRARY_EXTENSIONS[os]>>)

\* a directory that is created only if it is missing, and keeps its content
RecreateDirectory_KeepsContent(fs, dir) ==
    IF Exists(fs, dir) THEN fs ELSE makedirs(fs, dir).fs

\* if os.path.exists(d): shutil.rmtree(d)
\* os.makedirs(d)
\* (d never exists when makedirs runs, so makedirs cannot raise here)
RecreateDirectory(fs, dir) ==
    makedirs(IF Exists(fs, dir) THEN rmtree(fs, dir) ELSE fs, dir).fs

RECURSIVE CopyLibraries_SkipsMissing(_, _, _, _, _)
\* a loop that passes over a library the vendor installation does not have
CopyLibraries_SkipsMissing(libs, os, from, fs, copied) ==
    IF libs = <<>>
    THEN [result |-> "ok", fs |-> fs, copied |-> copied]
    ELSE LET c == copy(from,
                       LIBRARY_DIRECTORIES[os] \o
                           <<LibraryFileName(os, Head(libs))>>,
                       fs, <<"lib">>)
         IN  CopyLibraries_SkipsMissing(Tail(libs), os, from, c.fs,
                                        copied \cup c.copied)

RECURSIVE CopyLibraries(_, _, _, _, _)
\* for lib in MAYA_SDK_LIBS: shutil.copy(...); the first exception ends it
CopyLibraries(libs, os, from, fs, copied) ==
    IF libs = <<>>
    THEN [result |-> "ok", fs |-> fs, copied |-> copied]
    ELSE LET c == copy(from,
                       LIBRARY_DIRECTORIES[os] \o
                           <<LibraryFileName(os, Head(libs))>>,
                       fs, <<"lib">>)
         IN  IF c.result # "ok"
             THEN [result |-> c.result, fs |-> c.fs, copied |-> copied]
             ELSE CopyLibraries(Tail(libs), os, from, c.fs,
                                copied \cup c.copied)

\* a build() that prepares both output directories before it copies
MayaSDKConan_build_RecreatesBothFirst(os, from, fs) ==
    LET prepared == RecreateDirectory(RecreateDirectory(fs, <<"include">>),
                                      <<"lib">>)
        headers  == copytree(from, <<"include", "maya">>,
                             prepared, <<"include", "maya">>)
    IN  IF headers.result # "ok"
        THEN headers
        ELSE CopyLibraries(MAYA_SDK_LIBS, os, from, headers.fs, headers.copied)

\* build(): [result, fs, copied], the tree under build_folder it leaves and
\* the paths it wrote
MayaSDKConan_build(os, from, fs) ==
    LET headers == copytree(from, <<"include", "maya">>,
                            RecreateDirectory(fs, <<"include">>),
                            <<"include", "maya">>)
    IN  IF headers.result # "ok"
        THEN headers
        ELSE CopyLibraries(MAYA_SDK_LIBS, os, from,
                           RecreateDirectory(headers.fs, <<"lib">>),
                           headers.copied)

MayaSDK_Build ==
    /\ Len(history) < MaxBuilds
    /\ LET b == MayaSDKConan_build(settings_os, vendor, build_folder)
       IN  /\ build_folder' = b.fs
           /\ history' = Append(history,
                                [op |-> "mayasdk.build", result |-> b.result,
                                 pre |-> build_folder, copied |-> b.copied])
    /\ UNCHANGED <<settings_os, settings_compiler, maya_version,
                   mayasdk_maya_version, mayasdk_maya_path, vendor,
                   source_folder, package_folder, linesep>>

\* the file names of the six libraries in an installation, per OS, in the
\* order of MAYA_SDK_LIBS
INSTALLED_LIBRARIES ==
    [Windows |-> <<"Foundation.lib", "OpenMaya.lib", "OpenMayaAnim.lib",
                   "OpenMayaFX.lib", "OpenMayaRender.lib", "OpenMayaUI.lib">>,
     Linux   |-> <<"libFoundation.so", "libOpenMaya.so", "libOpenMayaAnim.so",
                   "libOpenMayaFX.so", "libOpenMayaRender.so",
                   "libOpenMayaUI.so">>,
     Macos   |-> <<"libFoundation.dylib", "libOpenMaya.dylib",
                   "libOpenMayaAnim.dylib", "libOpenMayaFX.dylib",
                   "libOpenMayaRender.dylib", "libOpenMayaUI.dylib">>]

Range(f) == {f[i] : i \in DOMAIN f}

HeaderNames == {"M" \o ToString(i) \o ".h" : i \in 1..MaxHeaders}

\* a tree from the set of its directories and the set of its files
Tree(dirs, files) ==
    [q \in dirs \cup files |->
        IF q \in dirs THEN Dir ELSE File("sdk:" \o q[Len(q)])]

Prefixes(p) == {SubSeq(p, 1, n) : n \in 0..Len(p)}

\* the installations: nothing at maya_path, or a directory without include,
\* with include alone, or with include/maya holding any of the headers; and
\* the library directory holding any of the libraries
VendorTrees(os) ==
    LET headers ==
            { [d |-> {}, f |-> {}], [d |-> {<<"include">>}, f |-> {}] } \cup
            { [d |-> {<<"include">>, <<"include", "maya">>},
               f |-> {<<"include", "maya", h>> : h \in hs}] :
                  hs \in SUBSET HeaderNames }
    IN  {<<>>} \cup
        { Tree(Prefixes(LIBRARY_DIRECTORIES[os]) \cup h.d,
               h.f \cup {LIBRARY_DIRECTORIES[os] \o <<l>> : l \in ls}) :
            h \in headers, ls \in SUBSET Range(INSTALLED_LIBRARIES[os]) }

\* what an earlier run or the user may have left under build_folder:
\* include/ and lib/ each absent, empty, or holding files
BuildTrees(os) ==
    LET old(dirs, files) ==
            [q \in {<<>>} \cup dirs \cup files |->
                IF q \in files THEN File("old") ELSE Dir]
        includes == { [d |-> {}, f |-> {}],
                      [d |-> {<<"include">>}, f |-> {}],
                      [d |-> {<<"include">>}, f |-> {<<"include", "old.h">>}],
                      [d |-> {<<"include">>, <<"include", "maya">>},
                       f |-> {<<"include", "maya", "M1.h">>}] }
        libs     == { [d |-> {}, f |-> {}],
                      [d |-> {<<"lib">>}, f |-> {}],
                      [d |-> {<<"lib">>}, f |-> {<<"lib", "old.txt">>}],
                      [d |-> {<<"lib">>},
                       f |-> {<<"lib", INSTALLED_LIBRARIES[os][6]>>}] }
    IN  { old(i.d \cup l.d, i.f \cup l.f) : i \in includes, l \in libs }

InitBuild ==
    /\ settings_os \in SETTINGS_os
    /\ settings_compiler = [name |-> "gcc", version |-> "9"]
    /\ maya_version = Some("2022")
    /\ mayasdk_maya_version = Some("2022")
    /\ mayasdk_maya_path = Some(USER_MAYA_PATH)
    /\ vendor \in VendorTrees(settings_os)
    /\ build_folder \in BuildTrees(settings_os)
    /\ source_folder = <<>>
    /\ package_folder = <<>>
    /\ linesep = <<>>
    /\ history = <<>>

NextBuild == MayaSDK_Build

SpecBuild == InitBuild /\ [][NextBuild]_vars

-----------------------------------------------------------------------------
(* ThinkboxMYLibraryConan.package.  The content of a file is the sequence  *)
(* of its characters; "LF" is '\n' and "CR" is '\r'.                       *)

\* calls of package() in one behaviour of SpecPackage
MaxPackages == 2

\* characters in NOTICE.txt and in LICENSE.txt
MaxLen == 2

RECURSIVE universal_newlines(_)
\* reading in text mode (open(..., 'r'), newline=None): '\r\n' and a lone
\* '\r' are read as '\n'
universal_newlines(bytes) ==
    IF bytes = <<>> THEN <<>>
    ELSE IF Head(bytes) = "CR"
    THEN IF Len(bytes) >= 2 /\ bytes[2] = "LF"
         THEN <<"LF">> \o universal_newlines(Tail(Tail(bytes)))
         ELSE <<"LF">> \o universal_newlines(Tail(bytes))
    ELSE <<Head(bytes)>> \o universal_newlines(Tail(bytes))

RECURSIVE SplitLines(_, _)
\* the lines of text, each with its '\n'; line is the line being read
SplitLines(text, line) ==
    IF text = <<>> THEN (IF line = <<>> THEN <<>> ELSE <<line>>)
    ELSE IF Head(text) = "LF"
    THEN <<Append(line, "LF")>> \o SplitLines(Tail(text), <<>>)
    ELSE SplitLines(Tail(text), Append(line, Head(text)))

\* file.readlines() of a file opened in text mode
readlines(bytes) == SplitLines(universal_newlines(bytes), <<>>)

RECURSIVE Flatten(_)
Flatten(lines) ==
    IF lines = <<>> THEN <<>> ELSE Head(lines) \o Flatten(Tail(lines))

RECURSIVE write_text(_, _)
\* writing in text mode (open(..., 'w'), newline=None): '\n' is written as
\* os.linesep
write_text(text, sep) ==
    IF text = <<>> THEN <<>>
    ELSE (IF Head(text) = "LF" THEN sep ELSE <<Head(text)>>)
         \o write_text(Tail(text), sep)

\* file.writelines(lines) to a file opened in text mode: no separator is added
writelines(lines, sep) == write_text(Flatten(lines), sep)

\* a package() that writes the license before the notice
ThinkboxMYLibraryConan_package_LicenseFirst(install, src, pkg, sep) ==
    IF install # "ok" THEN [result |-> install, package_folder |-> pkg]
    ELSE IF src.NOTICE = None \/ src.LICENSE = None
    THEN [result |-> "FileNotFoundError", package_folder |-> pkg]
    ELSE [result |-> "ok",
          package_folder |->
              Some(writelines(readlines(src.LICENSE[1]), sep)
                   \o writelines(readlines(src.NOTICE[1]), sep))]

\* package(): cmake.install() first, whose failure is passed on; then both
\* files are read, and only then licenses/LICENSE is opened for writing,
\* which replaces what it held.  install is the outcome of cmake.install();
\* src.NOTICE and src.LICENSE are None when the file cannot be opened.
ThinkboxMYLibraryConan_package(install, src, pkg, sep) ==
    IF install # "ok" THEN [result |-> install, package_folder |-> pkg]
    ELSE IF src.NOTICE = None \/ src.LICENSE = None
    THEN [result |-> "FileNotFoundError", package_folder |-> pkg]
    ELSE [result |-> "ok",
          package_folder |->
              Some(writelines(readlines(src.NOTICE[1]), sep)
                   \o writelines(readlines(src.LICENSE[1]), sep))]

Library_Package ==
    /\ Len(history) < MaxPackages
    /\ \E install \in {"ok", "CMakeError"} :
         LET r == ThinkboxMYLibraryConan_package(install, source_folder,
                                                 package_folder, linesep)
         IN  /\ package_folder' = r.package_folder
             /\ history' = Append(history,
                                  [op |-> "thinkboxmylibrary.package",
                                   result |-> r.result,
                                   pre |-> package_folder,
                                   install |-> install])
    /\ UNCHANGED <<settings_os, settings_compiler, maya_version,
                   mayasdk_maya_version, mayasdk_maya_path, vendor,
                   build_folder, source_folder, linesep>>

Characters == {"A", "B", "LF", "CR"}

\* the contents of a file of at most MaxLen characters
Contents == UNION {[1..n -> Characters] : n \in 0..MaxLen}

InitPackage ==
    /\ settings_os = "Linux"
    /\ settings_compiler = [name |-> "gcc", version |-> "9"]
    /\ maya_version = Some("2022")
    /\ mayasdk_maya_version = Some("2022")
    /\ mayasdk_maya_path = Some(USER_MAYA_PATH)
    /\ vendor = <<>>
    /\ build_folder = <<>>
    /\ source_folder \in [NOTICE  : {None} \cup {Some(c) : c \in Contents},
                          LICENSE : {None} \cup {Some(c) : c \in Contents}]
    /\ package_folder \in {None, Some(<<"B", "LF">>)}
    /\ linesep \in {<<"LF">>, <<"CR", "LF">>}
    /\ history = <<>>

NextPackage == Library_Package

SpecPackage == InitPackage /\ [][NextPackage]_vars

-----------------------------------------------------------------------------
(* Properties of MayaSDKConan.build(), checked under SpecBuild.            *)

\* the part of tree fs at and below p
Sub(fs, p) == [q \in {q \in DOMAIN fs : IsPrefix(p, q)} |-> fs[q]]

VendorHasHeaders ==
    <<"include", "maya">> \in DOMAIN vendor
    /\ vendor[<<"include", "maya">>].kind = "dir"

VendorLibrary(i) ==
    LIBRARY_DIRECTORIES[settings_os] \o <<INSTALLED_LIBRARIES[settings_os][i]>>

\* the libraries of the fixed list the installation does not have
MissingLibraries == {i \in 1..6 : VendorLibrary(i) \notin DOMAIN vendor}

\* the position in the fixed list of the first library that is missing
FirstMissing ==
    CHOOSE i \in MissingLibraries : \A j \in MissingLibraries : i <= j

\* C4: a build() that succeeds leaves lib/ holding exactly the six library
\* files named prefix + name + '.' + extension of the OS, each with the
\* content of the installation's file, and include/maya equal to the
\* installation's include/maya, whatever include/ and lib/ held before.
C4_BuildOutput ==
    Called("mayasdk.build") /\ Last.result = "ok" =>
        /\ Below(build_folder, <<"lib">>) =
              {<<"lib", INSTALLED_LIBRARIES[settings_os][i]>> : i \in 1..6}
        /\ Cardinality(Below(build_folder, <<"lib">>)) = 6
        /\ \A i \in 1..6 :
              build_folder[<<"lib", INSTALLED_LIBRARIES[settings_os][i]>>] =
                   vendor[VendorLibrary(i)]
        /\ Sub(build_folder, <<"include", "maya">>) =
              Sub(vendor, <<"include", "maya">>)

\* a successful build on Macos over an include/ and a lib/ that held files
C4_Witness ==
    /\ Called("mayasdk.build")
    /\ Last.result = "ok"
    /\ settings_os = "Macos"
    /\ <<"lib", "old.txt">> \in DOMAIN Last.pre
    /\ <<"include", "old.h">> \in DOMAIN Last.pre
    /\ <<"include", "maya", "M1.h">> \in DOMAIN build_folder

\* C5: when the installation, its include/maya or one of the six libraries
\* is missing, build() raises FileNotFoundError; it has then copied no
\* library when the headers are missing, and otherwise exactly the libraries
\* that precede the first missing one in the fixed list.
C5_BuildFailsAtFirstMissing ==
    Called("mayasdk.build") /\ (~VendorHasHeaders \/ MissingLibraries # {}) =>
        /\ Last.result = "FileNotFoundError"
        /\ Last.copied \cap {<<"lib", INSTALLED_LIBRARIES[settings_os][i]>> :
                                i \in 1..6}
             = IF VendorHasHeaders
               THEN {<<"lib", INSTALLED_LIBRARIES[settings_os][i]>> :
                        i \in 1..(FirstMissing - 1)}
               ELSE {}
        /\ Last.copied \subseteq DOMAIN build_folder

\* the third library is missing and the fourth is there
C5_Witness ==
    /\ Called("mayasdk.build")
    /\ VendorHasHeaders
    /\ FirstMissing = 3
    /\ 4 \notin MissingLibraries
    /\ Last.result = "FileNotFoundError"
    /\ Below(build_folder, <<"lib">>) =
          {<<"lib", INSTALLED_LIBRARIES[settings_os][i]>> : i \in 1..2}

\* C9 (as claimed): when build() fails, every file and directory below
\* include/ and below lib/ was written by the failing run.
C9_FailedBuildLeavesNothingOld ==
    Called("mayasdk.build") /\ Last.result # "ok" =>
        Below(build_folder, <<"include">>) \cup Below(build_folder, <<"lib">>)
            \subseteq Last.copied

\* C9 (amended): when build() fails, everything below include/ was written
\* by the failing run; so was everything below lib/ when the header copy
\* succeeded; when the header copy failed, lib/ is as it was before the run.
C9_FailedBuildOutput ==
    Called("mayasdk.build") /\ Last.result # "ok" =>
        /\ <<"include">> \in DOMAIN build_folder
        /\ Below(build_folder, <<"include">>) \subseteq Last.copied
        /\ IF VendorHasHeaders
           THEN /\ <<"lib">> \in DOMAIN build_folder
                /\ Below(build_folder, <<"lib">>) \subseteq Last.copied
           ELSE Sub(build_folder, <<"lib">>) = Sub(Last.pre, <<"lib">>)

\* the header copy fails over an include/ and a lib/ that held files
C9_Witness ==
    /\ Called("mayasdk.build")
    /\ Len(history) = 1
    /\ Last.result = "FileNotFoundError"
    /\ ~VendorHasHeaders
    /\ <<"include", "old.h">> \in DOMAIN Last.pre
    /\ <<"include", "old.h">> \notin DOMAIN build_folder
    /\ <<"lib", "old.txt">> \in DOMAIN build_folder

-----------------------------------------------------------------------------
(* Properties of ThinkboxMYLibraryConan.package(), under SpecPackage.      *)

SourcesReadable == source_folder.NOTICE # None /\ source_folder.LICENSE # None

\* the text of a file: its characters, with '\r\n' and a lone '\r' as '\n'
Text(bytes) ==
    LET keep == {i \in 1..Len(bytes) :
                    ~(bytes[i] = "LF" /\ i > 1 /\ bytes[i - 1] = "CR")}
        nth(k) == CHOOSE i \in keep : Cardinality({j \in keep : j <= i}) = k
    IN  [k \in 1..Cardinality(keep) |->
            IF bytes[nth(k)] = "CR" THEN "LF" ELSE bytes[nth(k)]]

HasCR(bytes) == \E i \in 1..Len(bytes) : bytes[i] = "CR"

\* C8 (as claimed): package() writes licenses/LICENSE with exactly the
\* content of NOTICE.txt followed by the content of LICENSE.txt, nothing
\* added or dropped; when either file is unreadable it fails and leaves
\* licenses/LICENSE as it was.
C8_LicenseIsExactConcatenation ==
    Called("thinkboxmylibrary.package") /\ Last.install = "ok" =>
        IF SourcesReadable
        THEN /\ Last.result = "ok"
             /\ package_folder =
                   Some(source_folder.NOTICE[1] \o source_folder.LICENSE[1])
        ELSE /\ Last.result # "ok"
             /\ package_folder = Last.pre

\* C8 (amended): the license file, read as text, is the text of NOTICE.txt
\* followed by the text of LICENSE.txt; its bytes are that text with every
\* '\n' written as the host's line separator, and are exactly the two
\* contents one after the other when neither holds a '\r' and the separator
\* is '\n'; when either file is unreadable package() fails and leaves
\* licenses/LICENSE as it was.
C8_LicenseIsTextConcatenation ==
    Called("thinkboxmylibrary.package") /\ Last.install = "ok" =>
        IF SourcesReadable
        THEN LET notice  == source_folder.NOTICE[1]
                 license == source_folder.LICENSE[1]
             IN  /\ Last.result = "ok"
                 /\ package_folder # None
                 /\ Text(package_folder[1]) = Text(notice) \o Text(license)
                 /\ linesep = <<"LF">> =>
                       package_folder[1] = Text(notice) \o Text(license)
                 /\ linesep = <<"LF">> /\ ~HasCR(notice) /\ ~HasCR(license) =>
                       package_folder[1] = notice \o license
                 /\ linesep = <<"CR", "LF">> =>
                       /\ Len(package_folder[1]) =
                             Len(Text(notice) \o Text(license))
                             + Cardinality({i \in 1..Len(package_folder[1]) :
                                              package_folder[1][i] = "CR"})
                       /\ \A i \in 1..Len(package_folder[1]) :
                             package_folder[1][i] = "CR" =>
                                 /\ i < Len(package_folder[1])
                                 /\ package_folder[1][i + 1] = "LF"
        ELSE /\ Last.result = "FileNotFoundError"
             /\ package_folder = Last.pre

\* notice 'A\n' and license 'B\n' give 'A\nB\n'
C8_Witness ==
    /\ Called("thinkboxmylibrary.package")
    /\ Last.result = "ok"
    /\ Last.pre = Some(<<"B", "LF">>)
    /\ source_folder.NOTICE = Some(<<"A", "LF">>)
    /\ source_folder.LICENSE = Some(<<"B", "LF">>)
    /\ package_folder = Some(<<"A", "LF", "B", "LF">>)

=============================================================================
